---- MODULE Spec2Model ----
(***************************************************************************)
(* Model of the stock dashboard: the chart component (StockNews) with its  *)
(* pinch gesture controller, time-window filter, chart-data composer,      *)
(* analysis panel and data fetches, and the search box of App with the     *)
(* ranking of its suggestions.                                             *)
(*                                                                         *)
(* JavaScript values are encoded as follows.                               *)
(*   number | null   : <<>> is null, <<n>> is the number n                 *)
(*   object | null   : <<>> is null, <<r>> is the object r                 *)
(*   zoomLevel       : the strings "all", "10y", "5y", "1y" of the source  *)
(*   a touch point   : <<clientX, clientY>>                                *)
(*   e.touches       : a sequence of touch points                          *)
(*   a date string   : <<yyyy, MM, dd>>, the fields of "yyyy-MM-dd"        *)
(*   a chart label   : <<MM, dd, yyyy>> as format(.., 'MMM dd, yyyy')      *)
(*                     writes it, or a date string passed through          *)
(*   a Date          : <<year, month, day, timeOfDay>>, compared in order  *)
(*   a fraction      : <<numerator, denominator>> with denominator >= 0;   *)
(*                     <<n, 0>> is Infinity, -Infinity or NaN as n is      *)
(*                     positive, negative or 0                             *)
(*   a square root   : a number that is a square root is carried as its    *)
(*                     square, a fraction                                  *)
(*   a search string : a sequence of one-character strings, so that case,  *)
(*                     prefixes and substrings are what they are in the    *)
(*                     source; "" is <<>>                                  *)
(***************************************************************************)
EXTENDS Integers, Sequences, FiniteSets, Bags, TLC

VARIABLES
    zoomLevel,          \* useState<'all'|'10y'|'5y'|'1y'>('1y')
    isZooming,          \* useState(false)
    touchStartDistance, \* useState<number | null>(null)
    historyData,        \* useState<StockHistoryData[]>([])
    predictionData,     \* useState<PredictionData | null>(null)
    now,                \* the clock read by new Date() at render time
    filteredData,       \* getChartData's filteredData at the last render
    chartData,          \* what getChartData returned at the last render
    ticks,              \* what the x-axis tick callback returned for each label at the last render
    analysis,           \* what the analysis section rendered at the last render
    last,               \* history: the last event and the state it found
    steps,              \* history: gesture events that changed zoomLevel
    crossings,          \* history: handled moves whose |delta| exceeded 50
    scenario,           \* history: progress through start, +60, +60, end
    sinceEnd,           \* history: a contact ended and no two-contact start since
    symbol,             \* the symbol prop of StockNews; '' is <<>>
    news,               \* useState<NewsItem[]>([])
    loading,            \* useState(false)
    error,              \* useState<string | null>(null)
    isLoading,          \* useState(false)
    requests,           \* the fetches of StockNews awaiting a response
    sentCount,          \* history: the number of requests StockNews has sent
    fetchEvent,         \* history: what the last step changed and requested
    writers,            \* history: the fetch flows that have set each slot
    round,              \* history: how the three fetches of the last selection ended
    resolved,           \* history: the history response the last step resumed on
    suggestions,        \* App: useState<StockSuggestion[]>([])
    appError,           \* App: useState<string>(''), the search box's error
    appLoading,         \* App: useState(false)
    searchRequests,     \* App: the GET /search/<query> requests awaiting a response
    searchEvent,        \* history: the last call or response of fetchSuggestions
    searchTerm,         \* App: useState(''), the value of the search input
    debounceTimer,      \* App: useRef<NodeJS.Timeout | null>(null), the timer set last
    timers,             \* the timers set by setTimeout that have neither fired nor been cleared
    timerCount,         \* the number of setTimeout calls so far: the last timer id
    selectedStock,      \* App: useState<StockData | null>(null)
    stockRequests       \* App: the GET /stock/<symbol> requests awaiting a response

vars == <<zoomLevel, isZooming, touchStartDistance, historyData,
          predictionData, now, filteredData, chartData, ticks, analysis, last, steps, crossings, scenario,
          sinceEnd, symbol, news, loading, error, isLoading, requests, sentCount,
          fetchEvent,
          writers, round, resolved, suggestions, appError, appLoading, searchRequests, searchEvent,
          searchTerm, debounceTimer, timers, timerCount, selectedStock, stockRequests>>

gestureVars == <<zoomLevel, isZooming, touchStartDistance>>
inputVars == <<historyData, predictionData, now>>
historyVars == <<last, steps, crossings, scenario, sinceEnd>>
fetchVars == <<symbol, news, loading, error, isLoading, requests, sentCount,
               fetchEvent, writers, round, resolved>>
boxVars == <<searchTerm, debounceTimer, timers, timerCount, selectedStock,
             stockRequests>>
appVars == <<suggestions, appError, appLoading, searchRequests, searchEvent,
             boxVars>>

(***************************************************************************)
(* Bounds of the model.                                                    *)
(***************************************************************************)
MaxTouches == 3
MaxCrossings == 2
MaxLen == 3
MaxPred == 2
MaxItems == 2
MaxSearches == 1
MaxRequests == 5
MaxKeystrokes == 3
MaxSent == 7

(***************************************************************************)
(* Values.                                                                 *)
(***************************************************************************)
Null == <<>>
Some(v) == <<v>>
Value(o) == o[1]

ZoomLevels == {"all", "10y", "5y", "1y"}

\* JavaScript truthiness of a value of type number | null: null and 0 are falsy.
Truthy(o) == o # Null /\ Value(o) # 0

Abs(x) == IF x < 0 THEN -x ELSE x

\* Math.sqrt on the perfect squares the touch points below produce.
Sqrt(n) == CHOOSE d \in 0..n : d * d = n

\* Math.hypot(dx, dy)
Hypot(dx, dy) == Sqrt(dx * dx + dy * dy)

(***************************************************************************)
(* Touch input.  The points lie on one line of slope 4/3, so that every    *)
(* pairwise distance is an integer: 0, 50, 60, 110, 120 and 170.           *)
(***************************************************************************)
Points == {<<0, 0>>, <<30, 40>>, <<66, 88>>, <<102, 136>>}
ExtraPoint == <<0, 0>>

\* e.touches: up to MaxTouches points; the handlers read only the first two.
TouchLists ==
    {<<>>} \cup {<<p>> : p \in Points}
    \cup {<<p, q>> \o [i \in 1..k |-> ExtraPoint] :
              p \in Points, q \in Points, k \in 0..(MaxTouches - 2)}

\* The distance the handlers compute from e.touches[0] and e.touches[1].
TouchDistance(touches) ==
    Hypot(touches[1][1] - touches[2][1], touches[1][2] - touches[2][2])

(***************************************************************************)
(* The zoom level transitions of handleTouchMove.                          *)
(***************************************************************************)
ZOOM_SENSITIVITY == 50

\* Pinch in = see longer history (zoom out)
ZoomOut(prev) ==
    CASE prev = "1y" -> "5y"
      [] prev = "5y" -> "10y"
      [] prev = "10y" -> "all"
      [] OTHER -> prev

\* Pinch out = see recent history (zoom in)
ZoomIn(prev) ==
    CASE prev = "all" -> "10y"
      [] prev = "10y" -> "5y"
      [] prev = "5y" -> "1y"
      [] OTHER -> prev

ExceedsSensitivityGe(zoomDelta) == Abs(zoomDelta) >= ZOOM_SENSITIVITY

\* Math.abs(zoomDelta) > ZOOM_SENSITIVITY
ExceedsSensitivity(zoomDelta) == Abs(zoomDelta) > ZOOM_SENSITIVITY

(***************************************************************************)
(* History variables: what the last event was and the state it found.      *)
(***************************************************************************)
Pre == [zoomLevel |-> zoomLevel, isZooming |-> isZooming,
        touchStartDistance |-> touchStartDistance]

Event(ev, touches, remaining) ==
    [ev |-> ev, touches |-> touches, remaining |-> remaining, pre |-> Pre]

\* A move the controller counts as a threshold crossing: two contacts while
\* zooming with a reference distance set, and |delta| above the threshold.
IsCrossing(touches) ==
    /\ isZooming
    /\ Len(touches) = 2
    /\ touchStartDistance # Null
    /\ Abs(TouchDistance(touches) - Value(touchStartDistance)) > ZOOM_SENSITIVITY

NoScenario == [phase |-> 0, from |-> "all", d0 |-> 0, via |-> <<>>]

\* The gesture start, move +60, move +60 again, end, begun while idle.
ScenarioAfter(ev, touches, zoomAfter) ==
    CASE ev = "start" /\ Len(touches) = 2 /\ ~isZooming ->
           [phase |-> 1, from |-> zoomLevel, d0 |-> TouchDistance(touches),
            via |-> <<zoomLevel>>]
      [] ev = "move" /\ Len(touches) = 2 /\ scenario.phase \in {1, 2}
            /\ TouchDistance(touches) = scenario.d0 + 60 * scenario.phase ->
           [scenario EXCEPT !.phase = @ + 1,
                            !.via = IF zoomAfter = zoomLevel THEN @
                                    ELSE Append(@, zoomAfter)]
      [] ev = "end" /\ scenario.phase = 3 ->
           [scenario EXCEPT !.phase = 4]
      [] OTHER -> NoScenario

Record(ev, touches, remaining) ==
    /\ last' = Event(ev, touches, remaining)
    /\ steps' = IF zoomLevel' # zoomLevel THEN steps + 1 ELSE steps
    /\ crossings' = IF ev = "move" /\ IsCrossing(touches)
                    THEN crossings + 1 ELSE crossings
    /\ scenario' = ScenarioAfter(ev, touches, zoomLevel')
    /\ sinceEnd' = CASE ev = "end" -> TRUE
                     [] ev = "start" /\ Len(touches) = 2 -> FALSE
                     [] OTHER -> sinceEnd

(***************************************************************************)
(* The touch handlers.                                                     *)
(***************************************************************************)
handleTouchStartAny(touches) ==
    IF Len(touches) >= 2
    THEN /\ touchStartDistance' = Some(TouchDistance(touches))
         /\ isZooming' = TRUE
         /\ UNCHANGED zoomLevel
    ELSE UNCHANGED gestureVars

handleTouchStart(touches) ==
    IF Len(touches) = 2
    THEN /\ touchStartDistance' = Some(TouchDistance(touches))
         /\ isZooming' = TRUE
         /\ UNCHANGED zoomLevel
    ELSE UNCHANGED gestureVars

handleTouchMove(touches) ==
    IF isZooming /\ Len(touches) = 2 /\ Truthy(touchStartDistance)
    THEN LET currentDistance == TouchDistance(touches)
             zoomDelta == currentDistance - Value(touchStartDistance)
         IN  IF ExceedsSensitivity(zoomDelta)
             THEN /\ zoomLevel' = IF zoomDelta < 0 THEN ZoomOut(zoomLevel)
                                                   ELSE ZoomIn(zoomLevel)
                  /\ touchStartDistance' = Some(currentDistance)
                  /\ UNCHANGED isZooming
             ELSE UNCHANGED gestureVars
    ELSE UNCHANGED gestureVars

handleTouchEndKeepDistance ==
    /\ isZooming' = FALSE
    /\ UNCHANGED <<touchStartDistance, zoomLevel>>

handleTouchEndKeepZooming ==
    /\ touchStartDistance' = Null
    /\ UNCHANGED <<isZooming, zoomLevel>>

handleTouchEnd ==
    /\ isZooming' = FALSE
    /\ touchStartDistance' = Null
    /\ UNCHANGED zoomLevel

\* onClick={() => setZoomLevel('1y')} and the three other buttons
setZoomLevel(level) ==
    /\ zoomLevel' = level
    /\ UNCHANGED <<isZooming, touchStartDistance>>

(***************************************************************************)
(* Dates.                                                                  *)
(***************************************************************************)
IsLeapYear(y) == (y % 4 = 0 /\ y % 100 # 0) \/ y % 400 = 0

DaysInMonth(y, m) ==
    CASE m = 2 -> IF IsLeapYear(y) THEN 29 ELSE 28
      [] m \in {4, 6, 9, 11} -> 30
      [] OTHER -> 31

\* new Date(item.date) for a date string: midnight of that day.
NewDate(dateString) == <<dateString[1], dateString[2], dateString[3], 0>>

\* Date.prototype.setFullYear(y): month, day and time are kept, and a day the
\* month does not have in year y (29 February) runs over into the next month.
SetFullYear(date, y) ==
    IF date[3] > DaysInMonth(y, date[2])
    THEN <<y, date[2] + 1, date[3] - DaysInMonth(y, date[2]), date[4]>>
    ELSE <<y, date[2], date[3], date[4]>>

\* getFullYear()
GetFullYear(date) == date[1]

\* a < b on Dates
DateLt(a, b) ==
    \E i \in 1..4 : a[i] < b[i] /\ \A j \in 1..(i - 1) : a[j] = b[j]

DateGt(a, b) == DateLt(b, a)

\* a >= b on Dates
DateGe(a, b) == ~DateLt(a, b)

\* format(date, 'MMM dd, yyyy'): month, day of month, year
Format(date) == <<date[2], date[3], date[1]>>

\* format(date, 'MMM yyyy'): month, year
FormatMonthYear(date) == <<date[2], date[1]>>

\* parseISO(dateString) for a date string: midnight of that day.
parseISO(dateString) == <<dateString[1], dateString[2], dateString[3], 0>>

(***************************************************************************)
(* getFilteredHistoryData and getChartData, as functions of the state      *)
(* they read.                                                              *)
(***************************************************************************)
\* filteredData.map(item => item.price)
Prices(items) == [i \in 1..Len(items) |-> Some(items[i].price)]

\* filteredData.map(item => format(new Date(item.date), 'MMM dd, yyyy'))
Labels(items) == [i \in 1..Len(items) |-> Format(NewDate(items[i].date))]

\* The entries an array of numbers contributes to a dataset's data.
Entries(numbers) == [i \in 1..Len(numbers) |-> Some(numbers[i])]

\* Array(n).fill(null)
NullFill(n) == [i \in 1..n |-> Null]

\* The years the switch subtracts for a zoom level that filters.
CutoffYears(zoom) ==
    CASE zoom = "1y" -> 1
      [] zoom = "5y" -> 5
      [] zoom = "10y" -> 10

getFilteredHistoryDataAlwaysCut(history, zoom, clock) ==
    IF Len(history) = 0 THEN <<>>
    ELSE LET years == IF zoom = "all" THEN 10 ELSE CutoffYears(zoom)
             cutoffDate == SetFullYear(clock, GetFullYear(clock) - years)
             Keep(item) == DateGe(NewDate(item.date), cutoffDate)
         IN  SelectSeq(history, Keep)

getFilteredHistoryDataStrict(history, zoom, clock) ==
    IF Len(history) = 0 THEN <<>>
    ELSE IF zoom \in {"1y", "5y", "10y"}
         THEN LET cutoffDate ==
                      SetFullYear(clock, GetFullYear(clock) - CutoffYears(zoom))
                  Keep(item) == DateGt(NewDate(item.date), cutoffDate)
              IN  SelectSeq(history, Keep)
         ELSE history

getFilteredHistoryData(history, zoom, clock) ==
    IF Len(history) = 0 THEN <<>>
    ELSE IF zoom \in {"1y", "5y", "10y"}
         THEN LET cutoffDate ==
                      SetFullYear(clock, GetFullYear(clock) - CutoffYears(zoom))
                  Keep(item) == DateGe(NewDate(item.date), cutoffDate)
              IN  SelectSeq(history, Keep)
         ELSE history

getChartDataNoPadding(history, zoom, clock, prediction) ==
    LET filtered == getFilteredHistoryData(history, zoom, clock)
        historical == [label |-> "Historical Price",
                       data |-> Prices(filtered)]
        p == Value(prediction)
    IN  [labels |-> Labels(filtered)
                    \o (IF prediction # Null THEN p.dates ELSE <<>>),
         datasets |->
            IF prediction # Null
            THEN <<historical,
                   [label |-> "Predicted Price",
                    data |-> Entries(p.predictions)],
                   [label |-> "Confidence Interval",
                    data |-> Entries(p.upper_bound)],
                   [label |-> "",
                    data |-> Entries(p.lower_bound)]>>
            ELSE <<historical>>]

getChartDataLabelsReversed(history, zoom, clock, prediction) ==
    LET filtered == getFilteredHistoryData(history, zoom, clock)
        historical == [label |-> "Historical Price",
                       data |-> Prices(filtered)]
        padding == NullFill(Len(filtered))
        p == Value(prediction)
    IN  [labels |-> (IF prediction # Null THEN p.dates ELSE <<>>)
                    \o Labels(filtered),
         datasets |->
            IF prediction # Null
            THEN <<historical,
                   [label |-> "Predicted Price",
                    data |-> padding \o Entries(p.predictions)],
                   [label |-> "Confidence Interval",
                    data |-> padding \o Entries(p.upper_bound)],
                   [label |-> "",
                    data |-> padding \o Entries(p.lower_bound)]>>
            ELSE <<historical>>]

getChartData(history, zoom, clock, prediction) ==
    LET filtered == getFilteredHistoryData(history, zoom, clock)
        historical == [label |-> "Historical Price",
                       data |-> Prices(filtered)]
        padding == NullFill(Len(filtered))
        p == Value(prediction)
    IN  [labels |-> Labels(filtered)
                    \o (IF prediction # Null THEN p.dates ELSE <<>>),
         datasets |->
            IF prediction # Null
            THEN <<historical,
                   [label |-> "Predicted Price",
                    data |-> padding \o Entries(p.predictions)],
                   [label |-> "Confidence Interval",
                    data |-> padding \o Entries(p.upper_bound)],
                   [label |-> "",
                    data |-> padding \o Entries(p.lower_bound)]>>
            ELSE <<historical>>]

\* The render that follows a state change: getChartData on the new state.
(***************************************************************************)
(* The analysis section: sentiment, trend, volatility and confidence of    *)
(* the predictions.                                                        *)
(***************************************************************************)
RECURSIVE Gcd(_, _)
Gcd(a, b) == IF b = 0 THEN a ELSE Gcd(b, a % b)

\* n / d of two integers, in lowest terms
Ratio(n, d) ==
    LET g == Gcd(Abs(n), Abs(d))
    IN  IF g = 0 THEN <<0, 0>>
        ELSE IF d < 0 THEN <<(-n) \div g, (-d) \div g>>
        ELSE <<n \div g, d \div g>>

\* x > t for a fraction x and an integer t
GreaterThan(x, t) == IF x[2] = 0 THEN x[1] > 0 ELSE x[1] > t * x[2]

RECURSIVE Sum(_)
Sum(numbers) ==
    IF numbers = <<>> THEN 0 ELSE Head(numbers) + Sum(Tail(numbers))

TypeError == [threw |-> TRUE]

\* Math.std dividing by n - 1, the standard deviation of a sample.
MathStdSample(array) ==
    IF array = <<>>
    THEN TypeError
    ELSE LET n == Len(array)
             total == Sum(array)
             squares == [i \in 1..n |-> (n * array[i] - total) * (n * array[i] - total)]
         IN  [threw |-> FALSE, square |-> Ratio(Sum(squares), n * n * (n - 1))]

\* Math.std: the mean is total / n, a deviation from it (n * x - total) / n,
\* and the result the square root of the sum of the squared deviations over
\* n.  reduce without an initial value throws on an empty array.
MathStd(array) ==
    IF array = <<>>
    THEN TypeError
    ELSE LET n == Len(array)
             total == Sum(array)
             squares == [i \in 1..n |-> (n * array[i] - total) * (n * array[i] - total)]
         IN  [threw |-> FALSE, square |-> Ratio(Sum(squares), n * n * n)]

\* x >= t for a fraction x and an integer t
AtLeast(x, t) == IF x[2] = 0 THEN x[1] > 0 ELSE x[1] >= t * x[2]

\* getMarketSentiment with >= in the place of each >.
getMarketSentimentGe(predictions, lastPrice) ==
    LET percentChange ==
            IF predictions = <<>>
            THEN <<0, 0>>
            ELSE Ratio((predictions[Len(predictions)] - lastPrice) * 100, lastPrice)
    IN  IF AtLeast(percentChange, 10) THEN "Strongly Bullish"
        ELSE IF AtLeast(percentChange, 5) THEN "Bullish"
        ELSE IF AtLeast(percentChange, -5) THEN "Neutral"
        ELSE IF AtLeast(percentChange, -10) THEN "Bearish"
        ELSE "Strongly Bearish"

\* The last prediction of an empty array is undefined and percentChange NaN.
getMarketSentiment(predictions, lastPrice) ==
    LET percentChange ==
            IF predictions = <<>>
            THEN <<0, 0>>
            ELSE Ratio((predictions[Len(predictions)] - lastPrice) * 100, lastPrice)
    IN  IF GreaterThan(percentChange, 10) THEN "Strongly Bullish"
        ELSE IF GreaterThan(percentChange, 5) THEN "Bullish"
        ELSE IF GreaterThan(percentChange, -5) THEN "Neutral"
        ELSE IF GreaterThan(percentChange, -10) THEN "Bearish"
        ELSE "Strongly Bearish"

\* volatility = std / lastPrice * 100 is the square root of square, negated
\* when lastPrice is negative; confidence = 100 - volatility * 10 is carried
\* as the volatility * 10 it takes from 100.
getMarketFactors(predictions, lastPrice) ==
    LET trend ==
            IF \A index \in 1..Len(predictions) :
                   index = 1 \/ predictions[index] >= predictions[index - 1]
            THEN "upward"
            ELSE IF \A index \in 1..Len(predictions) :
                        index = 1 \/ predictions[index] <= predictions[index - 1]
            THEN "downward"
            ELSE "mixed"
        std == MathStd(predictions)
    IN  IF std.threw
        THEN TypeError
        ELSE LET volatility ==
                     [negated |-> lastPrice < 0,
                      square |-> Ratio(std.square[1] * 100 * 100,
                                       std.square[2] * lastPrice * lastPrice)]
                 isHighVolatility ==
                     ~volatility.negated /\ GreaterThan(volatility.square, 5 * 5)
             IN  [threw |-> FALSE,
                  trend |-> trend,
                  volatility |-> IF isHighVolatility THEN "High"
                                                      ELSE "Moderate to Low",
                  confidence |->
                      [hundredMinus |->
                           [negated |-> volatility.negated,
                            square |-> Ratio(volatility.square[1] * 10 * 10,
                                             volatility.square[2])]]]

\* {predictionData && (...)}: the section calls getMarketSentiment and
\* getMarketFactors on the stored predictions; a call that throws ends the
\* render.
AnalysisSection(prediction) ==
    IF prediction = Null
    THEN Null
    ELSE LET data == Value(prediction)
             factors == getMarketFactors(data.predictions, data.last_actual)
         IN  IF factors.threw
             THEN Some(TypeError)
             ELSE Some([threw |-> FALSE,
                        sentiment |-> getMarketSentiment(data.predictions,
                                                         data.last_actual),
                        trend |-> factors.trend,
                        volatility |-> factors.volatility,
                        confidence |-> factors.confidence])

\* The callback of the x-axis ticks, on an index counted from 0: the label of
\* a tick, '' being <<>>.
tickCallback(index, history, prediction) ==
    IF index < Len(history)
    THEN FormatMonthYear(NewDate(history[index + 1].date))
    ELSE IF prediction # Null
            /\ index - Len(history) < Len(Value(prediction).dates)
         THEN FormatMonthYear(
                  parseISO(Value(prediction).dates[index - Len(history) + 1]))
         ELSE <<>>

\* The labels the chart draws: the callback on each index of the label axis.
Ticks(history, prediction, labels) ==
    [i \in 1..Len(labels) |-> tickCallback(i - 1, history, prediction)]

\* The render that follows a step, on the state the step leaves.
Render ==
    /\ filteredData' = Some(getFilteredHistoryData(historyData', zoomLevel', now'))
    /\ ticks' = Some(Ticks(historyData', predictionData',
                           getChartData(historyData', zoomLevel', now',
                                        predictionData').labels))
    /\ chartData' = Some(getChartData(historyData', zoomLevel', now',
                                       predictionData'))
    /\ analysis' = AnalysisSection(predictionData')

Rerender ==
    /\ UNCHANGED inputVars
    /\ Render

(***************************************************************************)
(* Inputs of the filter and the composer: what the history and prediction  *)
(* responses stored and what the clock reads.  Of a history item the code  *)
(* reads date and price; an item's price tells its place in the response.  *)
(* Dates are taken in one time zone.                                       *)
(***************************************************************************)
SeqsUpTo(S, n) == UNION {[1..k -> S] : k \in 0..n}

HistoryDates == {<<2012, 1, 1>>, <<2016, 1, 1>>, <<2023, 3, 1>>, <<2024, 6, 15>>}

HistoryOf(dates) == [i \in 1..Len(dates) |-> [date |-> dates[i], price |-> 100 + i]]

Histories == {HistoryOf(dates) : dates \in SeqsUpTo(HistoryDates, MaxLen)}

Clocks == {<<2024, 2, 29, 1>>, <<2025, 6, 15, 0>>}

PredictedPrices == {90, 110}

\* A PredictionData of the /predict endpoint: four parallel arrays.
PredictionOf(prices) ==
    [dates |-> [i \in 1..Len(prices) |-> <<2026, 1, i>>],
     predictions |-> prices,
     upper_bound |-> [i \in 1..Len(prices) |-> prices[i] + 10],
     lower_bound |-> [i \in 1..Len(prices) |-> prices[i] - 10],
     last_actual |-> 100,
     last_actual_date |-> <<2025, 12, 31>>]

Predictions ==
    {Null} \cup {Some(PredictionOf(prices)) :
                    prices \in SeqsUpTo(PredictedPrices, MaxPred)}

\* Predictions for the analysis section: each predicted price is a
\* percentage of the last actual price, on and around the thresholds of the
\* sentiment (90, 95, 105 and 110 percent).
Percentages == {85, 90, 95, 100, 105, 110, 115}

LastPrices == {100, 200}

AnalysisPredictionOf(percentages, lastPrice) ==
    [PredictionOf([i \in 1..Len(percentages) |->
                       (lastPrice * percentages[i]) \div 100])
        EXCEPT !.last_actual = lastPrice]

AnalysisPredictions ==
    {Some(AnalysisPredictionOf(percentages, lastPrice)) :
        percentages \in SeqsUpTo(Percentages, MaxPred), lastPrice \in LastPrices}

(***************************************************************************)
(* The fetches of StockNews: three effects, each an async function that    *)
(* runs to its await when a dependency of the effect has changed and       *)
(* resumes when the response of its request arrives.                       *)
(***************************************************************************)
Request(kind, sym, period) == [kind |-> kind, symbol |-> sym, period |-> period]

\* The slots a fetch sets before its await, as a record the three effects
\* of one commit pass along.
Slots ==
    [loading |-> loading, isLoading |-> isLoading, error |-> error,
     requests |-> requests, writers |-> writers, issued |-> <<>>]

Sets(written, slot, flow) == [written EXCEPT ![slot] = @ \cup {flow}]

Sends(slots, request) ==
    [slots EXCEPT !.requests = slots.requests (+) SetToBag({request}),
                  !.issued = Append(slots.issued, request)]

\* fetchNews to its await
fetchNews(slots, sym) ==
    IF sym = <<>>
    THEN slots
    ELSE Sends([slots EXCEPT !.loading = TRUE,
                             !.error = Null,
                             !.writers = Sets(Sets(slots.writers, "loading", "news"),
                                              "error", "news")],
               Request("news", sym, ""))

\* fetchHistoricalData sending the zoom level itself as the period.
fetchHistoricalDataNoMax(slots, sym, zoom) ==
    IF sym = <<>>
    THEN slots
    ELSE Sends([slots EXCEPT !.isLoading = TRUE,
                             !.error = Null,
                             !.writers = Sets(Sets(slots.writers, "isLoading", "history"),
                                              "error", "history")],
               Request("history", sym, zoom))

\* fetchHistoricalData to its await
fetchHistoricalData(slots, sym, zoom) ==
    IF sym = <<>>
    THEN slots
    ELSE LET period == IF zoom = "all" THEN "max" ELSE zoom
         IN  Sends([slots EXCEPT !.isLoading = TRUE,
                                 !.error = Null,
                                 !.writers = Sets(Sets(slots.writers, "isLoading", "history"),
                                                  "error", "history")],
                   Request("history", sym, period))

\* fetchPredictions to its await
fetchPredictions(slots, sym) ==
    IF sym = <<>>
    THEN slots
    ELSE Sends([slots EXCEPT !.isLoading = TRUE,
                             !.error = Null,
                             !.writers = Sets(Sets(slots.writers, "isLoading", "predict"),
                                              "error", "predict")],
               Request("predict", sym, ""))

FetchEvent(symbolChanged, zoomChanged, issued) ==
    [symbolChanged |-> symbolChanged, zoomChanged |-> zoomChanged,
     issued |-> issued]

\* The fetches of the last selection, while no change of the zoom level has
\* sent a further request: each is "pending" or ended with its outcome.
Round(outcome) == [news |-> outcome, history |-> outcome, predict |-> outcome]

Resolved(request, outcome) == [request |-> request, outcome |-> outcome]

RoundAfter(request, outcome) ==
    IF request.symbol = symbol /\ round[request.kind] = "pending"
    THEN [round EXCEPT ![request.kind] = outcome]
    ELSE round

\* The effects after the commit of a step: the effects on [symbol] run when
\* the symbol has changed, the effect on [symbol, zoomLevel] when either has.
Effects ==
    LET symbolChanged == symbol' # symbol
        zoomChanged == zoomLevel' # zoomLevel
        afterNews == IF symbolChanged THEN fetchNews(Slots, symbol') ELSE Slots
        afterHistory ==
            IF symbolChanged \/ zoomChanged
            THEN fetchHistoricalData(afterNews, symbol', zoomLevel')
            ELSE afterNews
        afterPredictions ==
            IF symbolChanged
            THEN fetchPredictions(afterHistory, symbol')
            ELSE afterHistory
    IN  /\ sentCount' = sentCount + Len(afterPredictions.issued)
        /\ loading' = afterPredictions.loading
        /\ isLoading' = afterPredictions.isLoading
        /\ error' = afterPredictions.error
        /\ requests' = afterPredictions.requests
        /\ writers' = afterPredictions.writers
        /\ fetchEvent' = FetchEvent(symbolChanged, zoomChanged,
                                    afterPredictions.issued)
        /\ round' = IF afterPredictions.issued = <<>> THEN round
                     ELSE IF symbolChanged THEN Round("pending")
                     ELSE Round("none")
        /\ resolved' = Null
        /\ UNCHANGED news

\* What the backend answers.  A history response is told apart by the
\* symbol and the period of its request.
StockSymbols == {<<"A", "A", "P", "L">>, <<"M", "S", "F", "T">>}

NewsOf(sym) == <<[title |-> sym]>>

HistoryFor(sym, period) ==
    LET dates == CASE period = "max" -> <<<<2012, 1, 1>>, <<2024, 6, 15>>>>
                   [] period = "10y" -> <<<<2016, 1, 1>>, <<2024, 6, 15>>>>
                   [] period = "5y" -> <<<<2023, 3, 1>>, <<2024, 6, 15>>>>
                   [] period = "1y" -> <<<<2024, 6, 15>>>>
    IN  IF sym = <<"A", "A", "P", "L">>
        THEN HistoryOf(dates)
        ELSE [i \in 1..Len(dates) |-> [date |-> dates[i], price |-> 200 + i]]

PredictionFor(sym) ==
    IF sym = <<"A", "A", "P", "L">>
    THEN PredictionOf(<<110>>)
    ELSE PredictionOf(<<90, 110>>)

\* fetchNews from its await, with setLoading(false) at the end of the try
\* block in place of the finally block.
fetchNewsResumeNoFinally(request, outcome) ==
    /\ requests' = requests (-) SetToBag({request})
    /\ IF outcome = "ok"
       THEN /\ loading' = FALSE
            /\ news' = NewsOf(request.symbol)
            /\ UNCHANGED error
            /\ writers' = [writers EXCEPT !.loading = @ \cup {"news"}]
       ELSE /\ error' = Some("Failed to fetch news")
            /\ UNCHANGED <<news, loading>>
            /\ writers' = [writers EXCEPT !.error = @ \cup {"news"}]
    /\ UNCHANGED <<isLoading, historyData, predictionData>>

\* fetchNews from its await: outcome "ok" is a response with news, "failed" a
\* rejected fetch or a response that is not ok.
fetchNewsResume(request, outcome) ==
    /\ requests' = requests (-) SetToBag({request})
    /\ loading' = FALSE
    /\ IF outcome = "ok"
       THEN /\ news' = NewsOf(request.symbol)
            /\ UNCHANGED error
            /\ writers' = [writers EXCEPT !.loading = @ \cup {"news"}]
       ELSE /\ error' = Some("Failed to fetch news")
            /\ UNCHANGED news
            /\ writers' = [writers EXCEPT !.loading = @ \cup {"news"},
                                          !.error = @ \cup {"news"}]
    /\ UNCHANGED <<isLoading, historyData, predictionData>>

\* fetchHistoricalData from its await, storing a history only when the
\* request is the one for the present symbol and zoom level.
fetchHistoricalDataResumeLatestOnly(request, outcome) ==
    /\ requests' = requests (-) SetToBag({request})
    /\ isLoading' = FALSE
    /\ IF outcome \in {"ok", "empty"}
       THEN /\ historyData' =
                   IF request.symbol # symbol
                        \/ request.period
                               # (IF zoomLevel = "all" THEN "max" ELSE zoomLevel)
                   THEN historyData
                   ELSE IF outcome = "ok"
                   THEN HistoryFor(request.symbol, request.period)
                   ELSE <<>>
            /\ UNCHANGED error
            /\ writers' = [writers EXCEPT !.isLoading = @ \cup {"history"}]
       ELSE /\ error' = IF outcome = "invalid"
                        THEN Some("Invalid data format received")
                        ELSE Some("Failed to fetch historical data")
            /\ UNCHANGED historyData
            /\ writers' = [writers EXCEPT !.isLoading = @ \cup {"history"},
                                          !.error = @ \cup {"history"}]
    /\ UNCHANGED <<loading, news, predictionData>>

\* fetchHistoricalData from its await: outcome "ok" is a response with a
\* history, "empty" one with an empty history, "invalid" one without a history
\* array, "failed" a rejected fetch or a response that is not ok.
fetchHistoricalDataResume(request, outcome) ==
    /\ requests' = requests (-) SetToBag({request})
    /\ isLoading' = FALSE
    /\ IF outcome \in {"ok", "empty"}
       THEN /\ historyData' = IF outcome = "ok"
                              THEN HistoryFor(request.symbol, request.period)
                              ELSE <<>>
            /\ UNCHANGED error
            /\ writers' = [writers EXCEPT !.isLoading = @ \cup {"history"}]
       ELSE /\ error' = IF outcome = "invalid"
                        THEN Some("Invalid data format received")
                        ELSE Some("Failed to fetch historical data")
            /\ UNCHANGED historyData
            /\ writers' = [writers EXCEPT !.isLoading = @ \cup {"history"},
                                          !.error = @ \cup {"history"}]
    /\ UNCHANGED <<loading, news, predictionData>>

\* fetchPredictions from its await: its catch only logs.
fetchPredictionsResume(request, outcome) ==
    /\ requests' = requests (-) SetToBag({request})
    /\ isLoading' = FALSE
    /\ predictionData' = IF outcome = "ok"
                         THEN Some(PredictionFor(request.symbol))
                         ELSE predictionData
    /\ writers' = [writers EXCEPT !.isLoading = @ \cup {"predict"}]
    /\ UNCHANGED <<loading, error, news, historyData>>

\* The chart panel: what each of its four conditional blocks shows.
ShowsError == error # Null /\ Value(error) # ""

ShowsLoading == isLoading

ShowsChart == ~ShowsError /\ ~isLoading /\ Len(historyData) > 0

ShowsNoData == ~ShowsError /\ ~isLoading /\ Len(historyData) = 0

(***************************************************************************)
(* The search box of App: fetchSuggestions and the ranking of the          *)
(* suggestions it receives.                                                *)
(***************************************************************************)
\* String.prototype.toUpperCase on the letters the model uses
UpperChar(c) ==
    CASE c = "a" -> "A"
      [] c = "l" -> "L"
      [] c = "p" -> "P"
      [] c = "x" -> "X"
      [] OTHER -> c

ToUpperCase(s) == [i \in 1..Len(s) |-> UpperChar(s[i])]

\* String.prototype.startsWith and String.prototype.includes
StartsWith(s, t) == Len(t) <= Len(s) /\ SubSeq(s, 1, Len(t)) = t

Includes(s, t) ==
    \E k \in 0..(Len(s) - Len(t)) : SubSeq(s, k + 1, k + Len(t)) = t

\* The comparator without its two exact-match returns.
compareNoExact(a, b, query) ==
    LET upper == ToUpperCase(query)
        aStartsWith == StartsWith(a.symbol, upper)
        bStartsWith == StartsWith(b.symbol, upper)
        aContains == Includes(a.symbol, upper)
        bContains == Includes(b.symbol, upper)
    IN  IF aStartsWith /\ ~bStartsWith THEN -1
        ELSE IF ~aStartsWith /\ bStartsWith THEN 1
        ELSE IF aContains /\ ~bContains THEN -1
        ELSE IF ~aContains /\ bContains THEN 1
        ELSE 0

\* The comparator without its two substring returns.
compareNoContains(a, b, query) ==
    LET upper == ToUpperCase(query)
        aStartsWith == StartsWith(a.symbol, upper)
        bStartsWith == StartsWith(b.symbol, upper)
    IN  IF a.symbol = upper THEN -1
        ELSE IF b.symbol = upper THEN 1
        ELSE IF aStartsWith /\ ~bStartsWith THEN -1
        ELSE IF ~aStartsWith /\ bStartsWith THEN 1
        ELSE 0

\* The comparator handed to sort: its returns in the order of the source.
compare(a, b, query) ==
    LET upper == ToUpperCase(query)
        aStartsWith == StartsWith(a.symbol, upper)
        bStartsWith == StartsWith(b.symbol, upper)
        aContains == Includes(a.symbol, upper)
        bContains == Includes(b.symbol, upper)
    IN  IF a.symbol = upper THEN -1
        ELSE IF b.symbol = upper THEN 1
        ELSE IF aStartsWith /\ ~bStartsWith THEN -1
        ELSE IF ~aStartsWith /\ bStartsWith THEN 1
        ELSE IF aContains /\ ~bContains THEN -1
        ELSE IF ~aContains /\ bContains THEN 1
        ELSE 0

\* Array.prototype.sort with that comparator.  The result is a rearrangement
\* of the array in which an element stands before another only if the
\* comparator puts it first, or ranks the two equal and it came first in the
\* array (the sort is stable).  Where the comparator puts each of two
\* elements before the other it is not a consistent comparator and their order
\* is the implementation's choice: every order it allows is a result.
Rearrange(array, order) == [i \in 1..Len(array) |-> array[order[i]]]

MayPrecede(array, i, j, query) ==
    \/ compare(array[i], array[j], query) < 0
    \/ compare(array[i], array[j], query) = 0 /\ i < j

SortOrders(array, query) ==
    {order \in Permutations(1..Len(array)) :
        \A i, j \in 1..Len(array) :
            i < j => MayPrecede(array, order[i], order[j], query)}

sort(array, query) ==
    {Rearrange(array, order) : order \in SortOrders(array, query)}

\* A response of GET /search/<query>: the request failed, or its data carries
\* an error, or suggestions, or neither.
Threw == [threw |-> TRUE]

DataError(message) == [threw |-> FALSE, error |-> message, suggestions |-> Null]

DataSuggestions(list) == [threw |-> FALSE, error |-> "", suggestions |-> list]

SearchEvent(ev, query, sent, input) ==
    [ev |-> ev, query |-> query, sent |-> sent, input |-> input]

\* fetchSuggestions with the request sent for every query.
fetchSuggestionsAlwaysSend(query) ==
    /\ appLoading' = TRUE
    /\ appError' = ""
    /\ searchRequests' = searchRequests (+) SetToBag({query})
    /\ searchEvent' = SearchEvent("call", query, 1, <<>>)
    /\ suggestions' = IF query = <<>> THEN <<>> ELSE suggestions

\* fetchSuggestions up to its await: the early return, or the request.
fetchSuggestions(query) ==
    IF query = <<>>
    THEN /\ suggestions' = <<>>
         /\ searchEvent' = SearchEvent("call", query, 0, <<>>)
         /\ UNCHANGED <<appError, appLoading, searchRequests>>
    ELSE /\ appLoading' = TRUE
         /\ appError' = ""
         /\ searchRequests' = searchRequests (+) SetToBag({query})
         /\ searchEvent' = SearchEvent("call", query, 1, <<>>)
         /\ UNCHANGED suggestions

\* fetchSuggestions from its await to its end, on the response of the
\* request for query.
fetchSuggestionsResume(query, response) ==
    /\ searchRequests' = searchRequests (-) SetToBag({query})
    /\ appLoading' = FALSE
    /\ IF response.threw
       THEN /\ appError' = "Error fetching suggestions. Please try again."
            /\ suggestions' = <<>>
            /\ searchEvent' = SearchEvent("threw", query, 0, <<>>)
       ELSE IF response.error # ""
       THEN /\ appError' = response.error
            /\ suggestions' = <<>>
            /\ searchEvent' = SearchEvent("error", query, 0, <<>>)
       ELSE LET input == IF response.suggestions = Null
                         THEN <<>> ELSE Value(response.suggestions)
            IN  /\ suggestions' \in sort(input, query)
                /\ searchEvent' = SearchEvent("ranked", query, 0, input)
                /\ UNCHANGED appError

\* What the search box is given: queries, and suggestion lists of the
\* backend.  Against the query "aapl" the symbols are an exact match, a
\* prefix match, a substring match and no match; two suggestions may carry
\* the same symbol.
Queries == {<<>>, <<"a", "a", "p", "l">>, <<"x">>}

Symbols == {<<"A", "A", "P", "L">>, <<"A", "A", "P", "L", "X">>,
            <<"X", "A", "A", "P", "L">>, <<"M", "S", "F", "T">>}

Suggestions ==
    [symbol : Symbols, name : {"first"}]
        \cup [symbol : {<<"A", "A", "P", "L">>}, name : {"second"}]

SearchResponses ==
    {Threw, DataError("backend error"), DataSuggestions(Null)}
        \cup {DataSuggestions(Some(list)) : list \in SeqsUpTo(Suggestions, MaxItems)}

(***************************************************************************)
(* The search box of App: the debounce of its keystrokes, and the          *)
(* selection of a suggestion.  Elapsed time is not counted: a timer that   *)
(* is pending fires at any later step.                                     *)
(***************************************************************************)
\* The delay handleSearch hands to setTimeout.
DebounceDelay == 150

\* A timer set by setTimeout: its id, the value its callback closes over and
\* its delay.
Timer(id, value, delay) == [id |-> id, value |-> value, delay |-> delay]

\* clearTimeout: the timer of that id is cancelled if it is still pending.
clearTimeout(pending, id) == {t \in pending : t.id # id}

\* handleSearch without its clearTimeout.
handleSearchNoClear(value) ==
    /\ searchTerm' = value
    /\ appError' = ""
    /\ timerCount' = timerCount + 1
    /\ timers' = timers \cup {Timer(timerCount + 1, value, DebounceDelay)}
    /\ debounceTimer' = Some(Timer(timerCount + 1, value, DebounceDelay))

\* handleSearch
handleSearch(value) ==
    /\ searchTerm' = value
    /\ appError' = ""
    /\ timerCount' = timerCount + 1
    /\ timers' = (IF debounceTimer # Null
                  THEN clearTimeout(timers, Value(debounceTimer).id)
                  ELSE timers)
                     \cup {Timer(timerCount + 1, value, DebounceDelay)}
    /\ debounceTimer' = Some(Timer(timerCount + 1, value, DebounceDelay))

\* handleSearchChange, on the value of the input
handleSearchChange(value) ==
    /\ searchTerm' = value
    /\ handleSearch(value)

\* The callback of a timer of handleSearch, run when the timer fires.
timerCallback(timer) ==
    /\ timers' = timers \ {timer}
    /\ fetchSuggestions(timer.value)

\* What GET /stock/<symbol> answers for a symbol.
StockOf(sym) == [symbol |-> sym, name |-> "name"]

\* fetchStockData up to its await.
fetchStockData(sym) ==
    /\ appLoading' = TRUE
    /\ appError' = ""
    /\ stockRequests' = stockRequests (+) SetToBag({sym})

\* fetchStockData from its await to its end: the response is stored and the
\* search box reset, or the request failed.
fetchStockDataResume(sym, outcome) ==
    /\ stockRequests' = stockRequests (-) SetToBag({sym})
    /\ appLoading' = FALSE
    /\ IF outcome = "ok"
       THEN /\ selectedStock' = Some(StockOf(sym))
            /\ suggestions' = <<>>
            /\ searchTerm' = <<>>
            /\ UNCHANGED appError
       ELSE /\ appError' = "Error fetching stock data. Please try again."
            /\ UNCHANGED <<selectedStock, suggestions, searchTerm>>

\* What GET /search/<query> answers for a query when it answers with
\* suggestions, in the order of the backend, and the responses a request for
\* the query may get.
SuggestionsFor(query) ==
    IF query = <<"a", "a", "p", "l">>
    THEN <<[symbol |-> <<"M", "S", "F", "T">>, name |-> "first"],
           [symbol |-> <<"A", "A", "P", "L">>, name |-> "first"]>>
    ELSE <<[symbol |-> <<"M", "S", "F", "T">>, name |-> "first"]>>

ResponsesFor(query) == {Threw, DataSuggestions(Some(SuggestionsFor(query)))}

\* The search input and the suggestion buttons are rendered on the welcome
\* panel when no stock is selected and nothing loads, and in the search
\* section when a stock is selected.
InputShown == selectedStock # Null \/ ~appLoading

(***************************************************************************)
(* The component as a state machine over its input events.                 *)
(***************************************************************************)
\* The fetch state of StockNews after construction, before a symbol is given.
InitFetch ==
    /\ symbol = <<>>
    /\ news = <<>>
    /\ loading = FALSE
    /\ error = Null
    /\ isLoading = FALSE
    /\ requests = EmptyBag
    /\ sentCount = 0
    /\ fetchEvent = FetchEvent(FALSE, FALSE, <<>>)
    /\ writers = [loading |-> {}, isLoading |-> {}, error |-> {}]
    /\ round = Round("none")
    /\ resolved = Null

\* App after construction: the initial values of its useState calls.
InitApp ==
    /\ suggestions = <<>>
    /\ appError = ""
    /\ appLoading = FALSE
    /\ searchRequests = EmptyBag
    /\ searchEvent = SearchEvent("none", <<>>, 0, <<>>)
    /\ searchTerm = <<>>
    /\ debounceTimer = Null
    /\ timers = {}
    /\ timerCount = 0
    /\ selectedStock = Null
    /\ stockRequests = EmptyBag

Init ==
    /\ zoomLevel = "1y"
    /\ isZooming = FALSE
    /\ touchStartDistance = Null
    /\ historyData = <<>>
    /\ predictionData = Null
    /\ now = <<2025, 6, 15, 0>>
    /\ filteredData = Null
    /\ chartData = Null
    /\ ticks = Null
    /\ analysis = Null
    /\ last = [ev |-> "none", touches |-> <<>>, remaining |-> 0,
               pre |-> [zoomLevel |-> "1y", isZooming |-> FALSE,
                        touchStartDistance |-> Null]]
    /\ steps = 0
    /\ crossings = 0
    /\ scenario = NoScenario
    /\ sinceEnd = FALSE
    /\ InitFetch
    /\ InitApp

TouchStartOn(touches) ==
    /\ Len(touches) >= 1
    /\ handleTouchStart(touches)
    /\ Record("start", touches, Len(touches))
    /\ Rerender
    /\ UNCHANGED symbol
    /\ Effects
    /\ UNCHANGED appVars

TouchStart == \E touches \in TouchLists : TouchStartOn(touches)

TouchMoveOn(touches) ==
    /\ Len(touches) >= 1
    /\ crossings < MaxCrossings
    /\ handleTouchMove(touches)
    /\ Record("move", touches, Len(touches))
    /\ Rerender
    /\ UNCHANGED symbol
    /\ Effects
    /\ UNCHANGED appVars

TouchMove == \E touches \in TouchLists : TouchMoveOn(touches)

\* A contact ends; remaining is the number of contacts still down.
TouchEnd ==
    \E remaining \in 0..(MaxTouches - 1) :
        /\ handleTouchEnd
        /\ Record("end", <<>>, remaining)
        /\ Rerender
        /\ UNCHANGED symbol
        /\ Effects
        /\ UNCHANGED appVars

ClickZoom ==
    \E level \in ZoomLevels :
        /\ setZoomLevel(level)
        /\ last' = Event("click", <<>>, 0)
        /\ scenario' = NoScenario
        /\ UNCHANGED <<steps, crossings, sinceEnd>>
        /\ Rerender
        /\ UNCHANGED symbol
        /\ Effects
        /\ UNCHANGED appVars

Next == TouchStart \/ TouchMove \/ TouchEnd \/ ClickZoom

Spec == Init /\ [][Next]_vars

(***************************************************************************)
(* The filter and the composer on stored data: the first render and the    *)
(* renders that follow a click on a zoom button.                           *)
(***************************************************************************)
InitChart ==
    /\ zoomLevel = "1y"
    /\ isZooming = FALSE
    /\ touchStartDistance = Null
    /\ historyData \in Histories
    /\ predictionData \in Predictions
    /\ now \in Clocks
    /\ filteredData = Null
    /\ chartData = Null
    /\ ticks = Null
    /\ analysis = Null
    /\ last = [ev |-> "none", touches |-> <<>>, remaining |-> 0,
               pre |-> [zoomLevel |-> "1y", isZooming |-> FALSE,
                        touchStartDistance |-> Null]]
    /\ steps = 0
    /\ crossings = 0
    /\ scenario = NoScenario
    /\ sinceEnd = FALSE
    /\ InitFetch
    /\ InitApp

Mount ==
    /\ chartData = Null
    /\ UNCHANGED gestureVars
    /\ UNCHANGED historyVars
    /\ Rerender
    /\ UNCHANGED fetchVars
    /\ UNCHANGED appVars

NextChart == Mount \/ ClickZoom

SpecChart == InitChart /\ [][NextChart]_vars

(***************************************************************************)
(* The analysis section on stored predictions: the first render and the    *)
(* renders that follow a click on a zoom button.                           *)
(***************************************************************************)
InitAnalysis ==
    /\ zoomLevel = "1y"
    /\ isZooming = FALSE
    /\ touchStartDistance = Null
    /\ historyData = <<>>
    /\ predictionData \in AnalysisPredictions
    /\ now = <<2025, 6, 15, 0>>
    /\ filteredData = Null
    /\ chartData = Null
    /\ ticks = Null
    /\ analysis = Null
    /\ last = [ev |-> "none", touches |-> <<>>, remaining |-> 0,
               pre |-> [zoomLevel |-> "1y", isZooming |-> FALSE,
                        touchStartDistance |-> Null]]
    /\ steps = 0
    /\ crossings = 0
    /\ scenario = NoScenario
    /\ sinceEnd = FALSE
    /\ InitFetch
    /\ InitApp

NextAnalysis == Mount \/ ClickZoom

SpecAnalysis == InitAnalysis /\ [][NextAnalysis]_vars

(***************************************************************************)
(* The fetches: a stock is selected, the zoom buttons are clicked, and the *)
(* responses of the requests arrive in any order.                          *)
(***************************************************************************)
\* App renders StockNews with the symbol of the selected stock.
SelectSymbol ==
    \E sym \in StockSymbols :
        /\ sym # symbol
        /\ symbol' = sym
        /\ UNCHANGED gestureVars
        /\ UNCHANGED historyVars
        /\ Effects
        /\ Rerender
        /\ UNCHANGED appVars

NewsResponse ==
    \E request \in BagToSet(requests) :
        \E outcome \in {"ok", "failed"} :
            /\ request.kind = "news"
            /\ fetchNewsResume(request, outcome)
            /\ fetchEvent' = FetchEvent(FALSE, FALSE, <<>>)
            /\ round' = RoundAfter(request, outcome)
            /\ UNCHANGED <<symbol, sentCount, now, gestureVars, historyVars, appVars>>
            /\ resolved' = Null
            /\ Render

HistoryResponse ==
    \E request \in BagToSet(requests) :
        \E outcome \in {"ok", "empty", "invalid", "failed"} :
            /\ request.kind = "history"
            /\ fetchHistoricalDataResume(request, outcome)
            /\ fetchEvent' = FetchEvent(FALSE, FALSE, <<>>)
            /\ round' = RoundAfter(request, outcome)
            /\ resolved' = Some(Resolved(request, outcome))
            /\ UNCHANGED <<symbol, sentCount, now, gestureVars, historyVars, appVars>>
            /\ Render

PredictionResponse ==
    \E request \in BagToSet(requests) :
        \E outcome \in {"ok", "failed"} :
            /\ request.kind = "predict"
            /\ fetchPredictionsResume(request, outcome)
            /\ fetchEvent' = FetchEvent(FALSE, FALSE, <<>>)
            /\ round' = RoundAfter(request, outcome)
            /\ resolved' = Null
            /\ UNCHANGED <<symbol, sentCount, now, gestureVars, historyVars, appVars>>
            /\ Render

\* A pinch on the chart: two contacts, 50 or 170 apart.
PinchLists == {<<<<0, 0>>, <<30, 40>>>>, <<<<0, 0>>, <<102, 136>>>>}

PinchStart == \E touches \in PinchLists : TouchStartOn(touches)

PinchMove == \E touches \in PinchLists : TouchMoveOn(touches)

\* The requests StockNews sends are counted, and a step that would send more
\* than the bound is not taken.
WithinRequests == sentCount' <= MaxRequests

NextFetch ==
    \/ SelectSymbol /\ WithinRequests
    \/ ClickZoom /\ WithinRequests
    \/ NewsResponse
    \/ HistoryResponse
    \/ PredictionResponse

SpecFetch == Init /\ [][NextFetch]_vars

\* The history fetches alone: the responses of the other two fetches have
\* not arrived.
NextHistory ==
    \/ SelectSymbol /\ WithinRequests
    \/ ClickZoom /\ WithinRequests
    \/ HistoryResponse

SpecHistory == Init /\ [][NextHistory]_vars

\* Selections and clicks on the zoom buttons, far enough for a second stock
\* to be selected after the zoom level was changed.
WithinSent == sentCount' <= MaxSent

NextSelect ==
    \/ SelectSymbol /\ WithinSent
    \/ ClickZoom /\ WithinSent

SpecSelect == Init /\ [][NextSelect]_vars

\* What starts the fetches: a selection, a click on a zoom button, a pinch.
NextTrigger ==
    \/ SelectSymbol /\ WithinRequests
    \/ ClickZoom /\ WithinRequests
    \/ PinchStart /\ WithinRequests
    \/ PinchMove /\ WithinRequests
    \/ TouchEnd

SpecTrigger == Init /\ [][NextTrigger]_vars

(***************************************************************************)
(* The search box: calls of fetchSuggestions and the responses of their    *)
(* requests, which arrive in any order.                                    *)
(***************************************************************************)
stockNewsVars ==
    <<gestureVars, inputVars, filteredData, chartData, ticks, analysis, historyVars,
      fetchVars>>

Search ==
    \E query \in Queries :
        /\ query # <<>> => BagCardinality(searchRequests) < MaxSearches
        /\ fetchSuggestions(query)
        /\ UNCHANGED <<stockNewsVars, boxVars>>

SearchResponse ==
    \E query \in BagToSet(searchRequests) :
        \E response \in SearchResponses :
            /\ fetchSuggestionsResume(query, response)
            /\ UNCHANGED <<stockNewsVars, boxVars>>

NextSearch == Search \/ SearchResponse

SpecSearch == Init /\ [][NextSearch]_vars

(***************************************************************************)
(* App: keystrokes in the search input, the debounce timer, the responses  *)
(* of the suggestion requests, clicks on a suggestion and the responses of *)
(* the stock requests.  A stock that is stored gives StockNews its symbol. *)
(***************************************************************************)
Keystroke ==
    /\ InputShown
    /\ timerCount < MaxKeystrokes
    /\ \E value \in Queries \ {searchTerm} : handleSearchChange(value)
    /\ UNCHANGED <<suggestions, appLoading, searchRequests, searchEvent,
                   selectedStock, stockRequests, stockNewsVars>>

Timeout ==
    \E timer \in timers :
        /\ timerCallback(timer)
        /\ UNCHANGED <<searchTerm, debounceTimer, timerCount, selectedStock,
                       stockRequests, stockNewsVars>>

\* A click on a suggestion.  Each stored stock has StockNews send three
\* requests: a click is taken only while its requests fit the bound.
ClickSuggestion ==
    /\ InputShown
    /\ sentCount + 3 * (BagCardinality(stockRequests) + 1) <= MaxSent
    /\ \E i \in 1..Len(suggestions) : fetchStockData(suggestions[i].symbol)
    /\ UNCHANGED <<suggestions, searchRequests, searchEvent, searchTerm,
                   debounceTimer, timers, timerCount, selectedStock,
                   stockNewsVars>>

StockResponse ==
    \E sym \in BagToSet(stockRequests) :
        \E outcome \in {"ok", "failed"} :
            /\ fetchStockDataResume(sym, outcome)
            /\ symbol' = IF selectedStock' = Null THEN symbol
                         ELSE Value(selectedStock').symbol
            /\ UNCHANGED <<searchRequests, searchEvent, debounceTimer, timers,
                           timerCount>>
            /\ UNCHANGED <<gestureVars, historyVars>>
            /\ Effects
            /\ Rerender

SuggestionResponse ==
    \E query \in BagToSet(searchRequests) :
        \E response \in ResponsesFor(query) :
            /\ fetchSuggestionsResume(query, response)
            /\ UNCHANGED <<stockNewsVars, boxVars>>

NextApp ==
    \/ Keystroke
    \/ Timeout
    \/ SuggestionResponse
    \/ ClickSuggestion
    \/ StockResponse

SpecApp == Init /\ [][NextApp]_vars

(***************************************************************************)
(* App and StockNews together, with every request answered in the end: a   *)
(* timer that is pending fires, and a request in flight gets its response. *)
(* The user types up to MaxSearches values and selects a stock.            *)
(***************************************************************************)
NextSettle ==
    \/ Keystroke /\ timerCount < MaxSearches
    \/ Timeout
    \/ SuggestionResponse
    \/ ClickSuggestion
    \/ StockResponse
    \/ NewsResponse
    \/ HistoryResponse
    \/ PredictionResponse

\* A request of StockNews of one kind, a suggestion request or a stock
\* request leaves the requests in flight: the step of its response.
Leaves(kind) ==
    \E request \in BagToSet(requests) :
        /\ request.kind = kind
        /\ requests' = requests (-) SetToBag({request})

SuggestionLeaves ==
    \E query \in BagToSet(searchRequests) :
        searchRequests' = searchRequests (-) SetToBag({query})

StockLeaves ==
    \E sym \in BagToSet(stockRequests) :
        stockRequests' = stockRequests (-) SetToBag({sym})

Answered ==
    /\ WF_vars(Timeout)
    /\ WF_searchRequests(SuggestionLeaves)
    /\ WF_stockRequests(StockLeaves)
    /\ WF_requests(Leaves("news"))
    /\ WF_requests(Leaves("history"))
    /\ WF_requests(Leaves("predict"))

SpecSettle == Init /\ [][NextSettle]_vars /\ Answered

(***************************************************************************)
(* Properties of the gesture controller.                                   *)
(***************************************************************************)
\* The window selector's order by span, widest first.
SpanOrder == <<"all", "10y", "5y", "1y">>
Rank(level) == CHOOSE i \in 1..4 : SpanOrder[i] = level
NextNarrower(level) == SpanOrder[IF Rank(level) = 4 THEN 4 ELSE Rank(level) + 1]
NextWider(level) == SpanOrder[IF Rank(level) = 1 THEN 1 ELSE Rank(level) - 1]

StateIsPre ==
    /\ zoomLevel = last.pre.zoomLevel
    /\ isZooming = last.pre.isZooming
    /\ touchStartDistance = last.pre.touchStartDistance

\* The last event was a two-contact move that found the controller ACTIVE
\* (zooming, reference distance set).
LastMoveWhileActive ==
    /\ last.ev = "move"
    /\ Len(last.touches) = 2
    /\ last.pre.isZooming
    /\ last.pre.touchStartDistance # Null

LastDistance == TouchDistance(last.touches)
LastDelta == LastDistance - Value(last.pre.touchStartDistance)

\* C1: every two-contact move handled while ACTIVE whose |currentDistance -
\* referenceDistance| exceeds 50 moves the selector by exactly one step (none
\* only at the end of the range) and sets referenceDistance to
\* currentDistance; so the selector steps never outnumber the crossings.
C1_OneStepPerCrossing ==
    /\ (LastMoveWhileActive /\ Abs(LastDelta) > 50) =>
          /\ zoomLevel = IF LastDelta > 0 THEN NextNarrower(last.pre.zoomLevel)
                                          ELSE NextWider(last.pre.zoomLevel)
          /\ touchStartDistance = Some(LastDistance)
    /\ steps <= crossings

\* C2: a move with delta < -50 replaces the selector by the next wider value
\* (ALL stays), a move with delta > +50 by the next narrower value (ONE_YEAR
\* stays), and no move event skips a level.
C2_Direction ==
    /\ (LastMoveWhileActive /\ LastDelta < -50) =>
          zoomLevel = NextWider(last.pre.zoomLevel)
    /\ (LastMoveWhileActive /\ LastDelta > 50) =>
          zoomLevel = NextNarrower(last.pre.zoomLevel)
    /\ last.ev = "move" =>
          Abs(Rank(zoomLevel) - Rank(last.pre.zoomLevel)) <= 1

\* C3: from IDLE, the sequence two-contact start, move +60, move +60 again,
\* end leaves ONE_YEAR at ONE_YEAR, takes ALL through TEN_YEAR to FIVE_YEAR,
\* and ends IDLE.
C3_Scenario ==
    scenario.phase = 4 =>
        /\ ~isZooming
        /\ touchStartDistance = Null
        /\ scenario.from = "1y" => (zoomLevel = "1y" /\ scenario.via = <<"1y">>)
        /\ scenario.from = "all" =>
              (zoomLevel = "5y" /\ scenario.via = <<"all", "10y", "5y">>)

\* C4: a two-contact move while ACTIVE with |currentDistance -
\* referenceDistance| <= 50 leaves the selector, the zooming flag and
\* referenceDistance unchanged.
C4_BelowThreshold ==
    (LastMoveWhileActive /\ Abs(LastDelta) <= 50) => StateIsPre

C4_Witness ==
    /\ LastMoveWhileActive
    /\ LastDelta = 50
    /\ last.pre.zoomLevel = "10y"

\* C5: ACTIVE is entered only by a contact-start with exactly two points,
\* which sets referenceDistance to their Euclidean distance; a contact-start
\* with another number of points, and a move received while IDLE, change
\* nothing.
C5_Engagement ==
    /\ (isZooming /\ ~last.pre.isZooming) =>
          (last.ev = "start" /\ Len(last.touches) = 2)
    /\ (last.ev = "start" /\ Len(last.touches) = 2) =>
          /\ isZooming
          /\ touchStartDistance # Null
          /\ Value(touchStartDistance) >= 0
          /\ Value(touchStartDistance) * Value(touchStartDistance) =
                (last.touches[1][1] - last.touches[2][1])
                    * (last.touches[1][1] - last.touches[2][1])
                + (last.touches[1][2] - last.touches[2][2])
                    * (last.touches[1][2] - last.touches[2][2])
          /\ zoomLevel = last.pre.zoomLevel
    /\ (last.ev = "start" /\ Len(last.touches) # 2) => StateIsPre
    /\ (last.ev = "move" /\ ~last.pre.isZooming) => StateIsPre

C5_Witness ==
    /\ last.ev = "start"
    /\ last.touches = <<<<30, 40>>, <<0, 0>>>>
    /\ ~last.pre.isZooming
    /\ isZooming
    /\ touchStartDistance = Some(50)

\* C6: a contact end leaving fewer than two points returns the controller to
\* IDLE with referenceDistance cleared and does not change the selector, and
\* no move changes the selector until a new two-contact start.
C6_ContactEnd ==
    /\ (last.ev = "end" /\ last.remaining < 2) =>
          /\ ~isZooming
          /\ touchStartDistance = Null
          /\ zoomLevel = last.pre.zoomLevel
    /\ sinceEnd => ~isZooming
    /\ (sinceEnd /\ last.ev = "move") => zoomLevel = last.pre.zoomLevel

C6_Witness ==
    /\ sinceEnd
    /\ last.ev = "move"
    /\ Len(last.touches) = 2
    /\ LastDistance = 170
    /\ steps > 0

(***************************************************************************)
(* Properties of the time-window filter and the series composer.           *)
(***************************************************************************)
\* A Date as a number that orders Dates.
Instant(date) == ((date[1] * 12 + date[2]) * 31 + date[3]) * 2 + date[4]

WindowYears(selector) ==
    CASE selector = "10y" -> 10 [] selector = "5y" -> 5 [] selector = "1y" -> 1

\* now minus the selector's number of calendar years
WindowCutoff == SetFullYear(now, now[1] - WindowYears(zoomLevel))

\* The places of the series whose date is at or after the cutoff.
KeptPlaces ==
    {i \in 1..Len(historyData) :
        Instant(NewDate(historyData[i].date)) >= Instant(WindowCutoff)}

\* The k-th smallest element of a set of places.
KthPlace(places, k) ==
    CHOOSE i \in places : Cardinality({j \in places : j <= i}) = k

AscendingByDate(series) ==
    \A i, j \in 1..Len(series) :
        i < j => Instant(NewDate(series[i].date)) <= Instant(NewDate(series[j].date))

\* C7: with selector ALL the filter returns the series unchanged: the same
\* elements in the same order, the empty series included.
C7_AllUnchanged ==
    (filteredData # Null /\ zoomLevel = "all") =>
        Value(filteredData) = historyData

C7_Witness ==
    /\ zoomLevel = "all"
    /\ filteredData # Null
    /\ Len(historyData) = 3
    /\ historyData[1].date = <<2012, 1, 1>>
    /\ Len(Value(filteredData)) = 3

\* C8: with selector TEN_YEAR, FIVE_YEAR or ONE_YEAR the filter returns
\* exactly the elements dated at or after now minus 10, 5 or 1 calendar
\* years, in their original order; of a series ascending by date that is a
\* contiguous suffix; the empty series gives the empty series.
C8_WindowFilter ==
    (filteredData # Null /\ zoomLevel \in {"10y", "5y", "1y"}) =>
        LET result == Value(filteredData)
        IN  /\ Len(result) = Cardinality(KeptPlaces)
            /\ \A k \in 1..Len(result) :
                  result[k] = historyData[KthPlace(KeptPlaces, k)]
            /\ AscendingByDate(historyData) =>
                  result = SubSeq(historyData,
                                  Len(historyData) - Len(result) + 1,
                                  Len(historyData))
            /\ historyData = <<>> => result = <<>>

C8_Witness ==
    /\ zoomLevel = "1y"
    /\ now = <<2025, 6, 15, 0>>
    /\ Len(historyData) = 3
    /\ historyData[1].date = <<2016, 1, 1>>
    /\ historyData[2].date = <<2023, 3, 1>>
    /\ historyData[3].date = <<2024, 6, 15>>
    /\ filteredData = Some(<<historyData[3]>>)

\* The array a prediction dataset is built from, by its place in datasets.
PredictionArray(k) ==
    CASE k = 2 -> Value(predictionData).predictions
      [] k = 3 -> Value(predictionData).upper_bound
      [] k = 4 -> Value(predictionData).lower_bound

\* C9: with a prediction present the composer produces four datasets: the
\* historical one of length len(filteredHistory), and the predicted, upper
\* and lower ones of length len(filteredHistory) + len(prediction.dates),
\* whose first len(filteredHistory) entries are the no-value marker and whose
\* other entries are the prediction values in order, each as long as the
\* label axis.
C9_PredictionDatasets ==
    (chartData # Null /\ predictionData # Null) =>
        LET chart == Value(chartData)
            n == Len(Value(filteredData))
            m == Len(Value(predictionData).dates)
        IN  /\ Len(chart.datasets) = 4
            /\ Len(chart.datasets[1].data) = n
            /\ \A k \in 2..4 :
                  /\ Len(chart.datasets[k].data) = n + m
                  /\ \A i \in 1..n : chart.datasets[k].data[i] = Null
                  /\ \A j \in 1..m :
                        chart.datasets[k].data[n + j] = Some(PredictionArray(k)[j])
                  /\ Len(chart.datasets[k].data) = Len(chart.labels)

C9_Witness ==
    /\ chartData # Null
    /\ predictionData # Null
    /\ Value(predictionData).predictions = <<90, 110>>
    /\ Len(historyData) = 3
    /\ Len(Value(filteredData)) = 2
    /\ Value(chartData).datasets[3].data = <<Null, Null, Some(100), Some(120)>>

\* The date string a label written by format(.., 'MMM dd, yyyy') shows.
LabelDate(label) == <<label[3], label[1], label[2]>>

\* C10: the labels are the dates of filteredHistory in order followed by
\* prediction.dates in order; with the prediction absent they are the history
\* dates only and there is exactly one dataset.
C10_Labels ==
    chartData # Null =>
        LET chart == Value(chartData)
            filtered == Value(filteredData)
            n == Len(filtered)
        IN  /\ \A i \in 1..n :
                  /\ i <= Len(chart.labels)
                  /\ LabelDate(chart.labels[i]) = filtered[i].date
            /\ predictionData # Null =>
                  LET dates == Value(predictionData).dates
                  IN  /\ Len(chart.labels) = n + Len(dates)
                      /\ \A j \in 1..Len(dates) : chart.labels[n + j] = dates[j]
            /\ predictionData = Null =>
                  /\ Len(chart.labels) = n
                  /\ Len(chart.datasets) = 1

C10_Witness ==
    /\ chartData # Null
    /\ predictionData # Null
    /\ zoomLevel = "5y"
    /\ Len(historyData) = 3
    /\ Value(chartData).labels =
          <<<<3, 1, 2023>>, <<6, 15, 2024>>, <<2026, 1, 1>>, <<2026, 1, 2>>>>

(***************************************************************************)
(* Properties of the ranking of suggestions.                               *)
(***************************************************************************)
\* The rank tier of a symbol sym against a query: 0 equal to the upper-cased
\* query, 1 only starting with it, 2 only containing it, 3 not containing it.
Tier(sym, query) ==
    LET upper == ToUpperCase(query)
    IN  IF sym = upper THEN 0
        ELSE IF \E rest \in 1..Len(sym) :
                    /\ Len(upper) + rest = Len(sym)
                    /\ \A k \in 1..Len(upper) : sym[k] = upper[k]
        THEN 1
        ELSE IF \E before \in 1..Len(sym) :
                    /\ before + Len(upper) <= Len(sym)
                    /\ \A k \in 1..Len(upper) : sym[before + k] = upper[k]
        THEN 2
        ELSE 3

\* The last event of the search box is a response whose suggestions were
\* ranked and stored.
Ranked == searchEvent.ev = "ranked"

CountIn(list, item) == Cardinality({i \in 1..Len(list) : list[i] = item})

OfTier(list, query, tier) ==
    LET InTier(item) == Tier(item.symbol, query) = tier
    IN  SelectSeq(list, InTier)

\* C11: when some suggestion of the response has the upper-cased query as its
\* symbol, wherever it stands in the response, the first ranked suggestion
\* has that symbol.
C11_ExactFirst ==
    (Ranked /\ \E i \in 1..Len(searchEvent.input) :
                   searchEvent.input[i].symbol = ToUpperCase(searchEvent.query))
        => /\ suggestions # <<>>
           /\ suggestions[1].symbol = ToUpperCase(searchEvent.query)

\* C11's case: the exact match came last in the response and is ranked first.
C11_Witness ==
    /\ Ranked
    /\ Len(searchEvent.input) = 2
    /\ searchEvent.input[1].symbol # ToUpperCase(searchEvent.query)
    /\ searchEvent.input[2].symbol = ToUpperCase(searchEvent.query)
    /\ suggestions[1] = searchEvent.input[2]

\* C12: the ranked suggestions are the response's suggestions rearranged, and
\* no suggestion stands before one of a better tier: exact matches, then
\* prefix matches, then substring matches, then the rest.
C12_TierOrder ==
    Ranked =>
        /\ Len(suggestions) = Len(searchEvent.input)
        /\ \A i \in 1..Len(suggestions) :
               CountIn(suggestions, suggestions[i])
                   = CountIn(searchEvent.input, suggestions[i])
        /\ \A i, j \in 1..Len(suggestions) :
               i < j => Tier(suggestions[i].symbol, searchEvent.query)
                            <= Tier(suggestions[j].symbol, searchEvent.query)

\* C12's case: a response that lists a substring match before a prefix match
\* is stored with the two exchanged.
C12_Witness ==
    /\ Ranked
    /\ Len(searchEvent.input) = 2
    /\ Tier(searchEvent.input[1].symbol, searchEvent.query) = 2
    /\ Tier(searchEvent.input[2].symbol, searchEvent.query) = 1
    /\ suggestions = <<searchEvent.input[2], searchEvent.input[1]>>

\* C13: the ranked suggestions are the response's suggestions of tier 0 in
\* the order of the response, then those of tier 1 in that order, then tier
\* 2, then tier 3: two suggestions of one tier keep their relative order, and
\* the result is a function of the response and the query.
C13_Stable ==
    Ranked =>
        suggestions = OfTier(searchEvent.input, searchEvent.query, 0)
                          \o OfTier(searchEvent.input, searchEvent.query, 1)
                          \o OfTier(searchEvent.input, searchEvent.query, 2)
                          \o OfTier(searchEvent.input, searchEvent.query, 3)

\* C14: a call with the empty query leaves the suggestions empty and sends no
\* request, and a response with an empty list of suggestions leaves the
\* suggestions empty.
C14_EmptyCases ==
    /\ (searchEvent.ev = "call" /\ searchEvent.query = <<>>)
           => suggestions = <<>> /\ searchEvent.sent = 0
    /\ (Ranked /\ searchEvent.input = <<>>) => suggestions = <<>>

\* C14's case: the empty query is given while an earlier request is awaiting
\* its response, and no request joins it.
C14_Witness ==
    /\ searchEvent.ev = "call"
    /\ searchEvent.query = <<>>
    /\ suggestions = <<>>
    /\ searchEvent.sent = 0
    /\ BagCardinality(searchRequests) = 1

(***************************************************************************)
(* Properties of the analysis section.                                     *)
(***************************************************************************)
\* The analysis section has been rendered from the stored predictions.
Analysed == predictionData # Null /\ analysis # Null

Predicted == Value(predictionData).predictions

LastActual == Value(predictionData).last_actual

\* (last prediction - lastActual) * 100, which is percentChange * lastActual
ChangeTimes100 == (Predicted[Len(Predicted)] - LastActual) * 100

\* C15: for a last actual price above 0 and a last prediction, the sentiment
\* is Strongly Bullish exactly when percentChange > 10, Bullish when it is in
\* (5, 10], Neutral in (-5, 5], Bearish in (-10, -5] and Strongly Bearish at
\* or below -10; the predictions <<110>> after 100 are Bullish.
C15_Sentiment ==
    (Analysed /\ LastActual > 0 /\ Predicted # <<>>) =>
        /\ ~Value(analysis).threw
        /\ Value(analysis).sentiment = "Strongly Bullish"
               <=> ChangeTimes100 > 10 * LastActual
        /\ Value(analysis).sentiment = "Bullish"
               <=> (5 * LastActual < ChangeTimes100
                       /\ ChangeTimes100 <= 10 * LastActual)
        /\ Value(analysis).sentiment = "Neutral"
               <=> (-5 * LastActual < ChangeTimes100
                       /\ ChangeTimes100 <= 5 * LastActual)
        /\ Value(analysis).sentiment = "Bearish"
               <=> (-10 * LastActual < ChangeTimes100
                       /\ ChangeTimes100 <= -5 * LastActual)
        /\ Value(analysis).sentiment = "Strongly Bearish"
               <=> ChangeTimes100 <= -10 * LastActual
        /\ (Predicted = <<110>> /\ LastActual = 100)
               => Value(analysis).sentiment = "Bullish"

\* C15's case: the predictions <<110>> after a last actual price of 100.
C15_Witness ==
    /\ Analysed
    /\ Predicted = <<110>>
    /\ LastActual = 100
    /\ ~Value(analysis).threw
    /\ Value(analysis).sentiment = "Bullish"

NonDecreasing(numbers) ==
    \A i \in 1..Len(numbers) : \A j \in 1..Len(numbers) :
        j = i + 1 => numbers[i] <= numbers[j]

NonIncreasing(numbers) ==
    \A i \in 1..Len(numbers) : \A j \in 1..Len(numbers) :
        j = i + 1 => numbers[i] >= numbers[j]

\* C16: the analysis section shows the trend upward when the predictions
\* never fall from one to the next, downward when they are not so but never
\* rise, and mixed otherwise; constant, one-element and empty predictions
\* show upward.
C16_Trend ==
    Analysed =>
        /\ ~Value(analysis).threw
        /\ Value(analysis).trend =
               IF NonDecreasing(Predicted) THEN "upward"
               ELSE IF NonIncreasing(Predicted) THEN "downward"
               ELSE "mixed"
        /\ (Len(Predicted) <= 1 \/ \A i \in 1..Len(Predicted) :
                                      Predicted[i] = Predicted[1])
               => Value(analysis).trend = "upward"

\* n * n times the population variance of the predictions:
\* n * (sum of squares) - (sum)^2
VarianceTimesNN ==
    LET squares == [i \in 1..Len(Predicted) |-> Predicted[i] * Predicted[i]]
    IN  Len(Predicted) * Sum(squares) - Sum(Predicted) * Sum(Predicted)

\* (n * lastActual)^2; the square of the volatility is 10000 *
\* VarianceTimesNN over it.
ScaleNN == Len(Predicted) * Len(Predicted) * LastActual * LastActual

VolatilitySquared == Ratio(10000 * VarianceTimesNN, ScaleNN)

\* confidence < 0 and confidence = 100 of a confidence 100 - x
IsNegative(confidence) ==
    /\ ~confidence.hundredMinus.negated
    /\ GreaterThan(confidence.hundredMinus.square, 100 * 100)

IsHundred(confidence) == confidence.hundredMinus.square[1] = 0

IssuedOf(kind) ==
    {i \in 1..Len(fetchEvent.issued) : fetchEvent.issued[i].kind = kind}

PeriodOf(selector) == IF selector = "all" THEN "max" ELSE selector

\* C18: a step that changes the symbol sends one news request, one history
\* request and one prediction request, all for the new symbol; a step that
\* changes only the zoom level, a click or a pinch, sends one history
\* request and nothing else; a history request carries the new zoom level as
\* its period, "max" for "all".
C18_Triggers ==
    /\ fetchEvent.symbolChanged =>
           /\ Len(fetchEvent.issued) = 3
           /\ \A kind \in {"news", "history", "predict"} :
                  Cardinality(IssuedOf(kind)) = 1
           /\ \A i \in 1..Len(fetchEvent.issued) :
                  fetchEvent.issued[i].symbol = symbol
    /\ (fetchEvent.zoomChanged /\ ~fetchEvent.symbolChanged /\ symbol # <<>>) =>
           /\ Len(fetchEvent.issued) = 1
           /\ fetchEvent.issued[1].kind = "history"
           /\ fetchEvent.issued[1].symbol = symbol
    /\ \A i \in IssuedOf("history") :
           fetchEvent.issued[i].period = PeriodOf(zoomLevel)

\* C18's case: a pinch widens the window of a selected stock to "all" and
\* the one request it sends is the history with period "max".
C18_Witness ==
    /\ last.ev = "move"
    /\ fetchEvent.zoomChanged
    /\ symbol # <<>>
    /\ zoomLevel = "all"
    /\ fetchEvent.issued = <<Request("history", symbol, "max")>>

\* C19: no loading flag and no error slot is set by more than one of the
\* three fetches.
C19_OwnSlots ==
    \A slot \in {"loading", "isLoading", "error"} :
        Cardinality(writers[slot]) <= 1

\* C20: when the three fetches of a selection have ended, the history with a
\* history that is not empty and the news or the predictions with a failure,
\* the chart panel shows the chart of that history.
C20_Isolation ==
    (/\ round.history = "ok"
     /\ round.news \in {"ok", "failed"}
     /\ round.predict \in {"ok", "failed"}
     /\ round.news = "failed" \/ round.predict = "failed")
        => /\ ShowsChart
           /\ historyData = HistoryFor(symbol, PeriodOf(zoomLevel))

(***************************************************************************)
(* Properties of the search box's debounce.                                *)
(***************************************************************************)
\* The timers that are pending: at most one, and it is the timer of the last
\* keystroke, held by the ref, with the delay of 150.
OneTimer ==
    /\ Cardinality(timers) <= 1
    /\ \A t \in timers :
           /\ t.id = timerCount
           /\ t.delay = DebounceDelay
           /\ debounceTimer = Some(t)

\* A keystroke leaves exactly its own timer pending.
KeystrokeRestarts ==
    timerCount' # timerCount
        => timers' = {Timer(timerCount', searchTerm', DebounceDelay)}

\* A suggestion request is issued only by a timer that fires, the timer of
\* the last keystroke, and for the value of that keystroke.
IssuedByLastTimer ==
    searchRequests' # searchRequests
            /\ BagCardinality(searchRequests') > BagCardinality(searchRequests)
        => /\ timerCount' = timerCount
           /\ \E t \in timers :
                  /\ timers' = timers \ {t}
                  /\ t.id = timerCount
                  /\ searchRequests' = searchRequests (+) SetToBag({t.value})

\* C21: every keystroke cancels the pending debounce timer and starts a new
\* timer of 150, so at most one timer is pending at any time; a suggestion
\* request is issued only when the timer of the last keystroke fires, for
\* that keystroke's value, and never for a value that a later keystroke
\* superseded before its timer fired.
C21_Debounce ==
    /\ []OneTimer
    /\ [][KeystrokeRestarts /\ IssuedByLastTimer]_vars

\* A second keystroke superseded the first, and its timer has fired and
\* issued the one request in flight.
C21_Witness ==
    /\ timerCount = 2
    /\ timers = {}
    /\ searchEvent = SearchEvent("call", <<"x">>, 1, <<>>)
    /\ searchRequests = SetToBag({<<"x">>})
    /\ suggestions = <<>>

(***************************************************************************)
(* Properties of the responses of the fetches.                             *)
(***************************************************************************)
HistoryInFlight == \E r \in BagToSet(requests) : r.kind = "history"

\* A history response that succeeded is stored, whatever was requested since.
StoresResolved ==
    resolved # Null /\ Value(resolved).outcome = "ok"
        => historyData = HistoryFor(Value(resolved).request.symbol,
                                    Value(resolved).request.period)

\* The stored history changes only when a history response arrives.
ChangesOnResponse == historyData' # historyData => resolved' # Null

\* C22: no successful history response is discarded: each is stored when it
\* arrives, and the stored history then stays until the next history
\* response, so that after two fetches in flight have both resolved the
\* stored history is the payload of the one that resolved last, whichever
\* was issued last.
C22_LastResolvedWins ==
    /\ []StoresResolved
    /\ [][ChangesOnResponse]_vars

\* Two history fetches were in flight; the one issued first resolved last,
\* after the other had succeeded, and its payload is what is stored while
\* the zoom level asks for another period.
C22_Witness ==
    /\ resolved # Null
    /\ Value(resolved).outcome = "ok"
    /\ Value(resolved).request.symbol = symbol
    /\ Value(resolved).request.period # PeriodOf(zoomLevel)
    /\ ~HistoryInFlight
    /\ error = Null
    /\ historyData = HistoryFor(symbol, Value(resolved).request.period)
    /\ historyData # HistoryFor(symbol, PeriodOf(zoomLevel))

\* C23: the zoom level keeps its value across the fetches and responses of
\* one symbol, and is back at its default, 1y, whenever StockNews is given
\* another symbol in place of the one it had.
C23_ResetOnSymbolChange ==
    [][symbol # <<>> /\ symbol' # symbol => zoomLevel' = "1y"]_vars

\* The fetches of the present selection that have failed.
Failed(kind) == round[kind] \in {"failed", "invalid"}

\* While a fetch of the present selection has failed, an error message that
\* is not empty is set.
FailureShown ==
    (\E kind \in {"news", "history", "predict"} : Failed(kind))
        => error # Null /\ Value(error) # ""

\* The step in which a fetch fails leaves what that fetch stores as it was.
FailureKeepsData ==
    /\ round.news = "pending" /\ Failed("news")' => news' = news
    /\ round.history = "pending" /\ Failed("history")'
           => historyData' = historyData
    /\ round.predict = "pending" /\ Failed("predict")'
           => predictionData' = predictionData

\* C24: every failure of the news, history or prediction fetch leaves the
\* data that fetch stores unchanged and has an error message that is not
\* empty set for the user.
C24_FailuresSurface ==
    /\ []FailureShown
    /\ [][FailureKeepsData]_vars

(***************************************************************************)
(* The state of the gesture controller.                                    *)
(***************************************************************************)
\* C25: in every reachable state the zooming flag is true exactly when the
\* reference distance is set: idle has none, active always has one, whatever
\* the sequence of starts, moves and ends and their numbers of contacts.
C25_ZoomingIffReference == isZooming <=> touchStartDistance # Null

\* Active after a move that stepped the zoom level and took the present
\* distance as the new reference.
C25_Witness ==
    /\ isZooming
    /\ last.ev = "move"
    /\ steps > 0
    /\ touchStartDistance = Some(TouchDistance(last.touches))

(***************************************************************************)
(* The loading flags.                                                      *)
(***************************************************************************)
\* A history request for the present symbol and zoom level is in flight.
CurrentHistoryInFlight ==
    \E r \in BagToSet(requests) :
        r.kind = "history" /\ r.symbol = symbol /\ r.period = PeriodOf(zoomLevel)

\* C26: while a history fetch for the selected symbol and the present zoom
\* level is in flight the chart's loading flag is true, in whatever order
\* the history and prediction responses arrive.
C26_LoadingWhileInFlight == CurrentHistoryInFlight => ShowsLoading

\* No request of App or of StockNews is in flight.
Quiet ==
    /\ requests = EmptyBag
    /\ searchRequests = EmptyBag
    /\ stockRequests = EmptyBag

InFlight ==
    BagCardinality(requests) + BagCardinality(searchRequests)
        + BagCardinality(stockRequests)

\* The loading flag of App, the news loading flag and the chart loading flag
\* are all false.
AllSettled == ~appLoading /\ ~loading /\ ~isLoading

\* A step that ends a state with all three flags false issues a request.
SettledUntilIssue == AllSettled /\ ~AllSettled' => InFlight' > InFlight

\* C27: when every request that is issued gets its response, a state in
\* which a loading flag is true leads to one in which the three flags are
\* all false; they are all false whenever no request is in flight; and once
\* all false they stay false until a step issues a new request.
C27_FlagsSettle ==
    /\ ~AllSettled ~> AllSettled
    /\ [](Quiet => AllSettled)
    /\ [][SettledUntilIssue]_vars

\* All five requests of a search and a selection have been answered, the
\* prediction request last and with a failure, and the flags are all false.
C27_Witness ==
    /\ Quiet
    /\ AllSettled
    /\ sentCount = 3
    /\ selectedStock # Null
    /\ round.predict = "failed"
    /\ round.history = "ok"
    /\ timers = {}

(***************************************************************************)
(* Properties of the suggestions and the selection.                        *)
(***************************************************************************)
\* The value entered last: the value of the timer set last.
LastEntered == IF debounceTimer = Null THEN <<>> ELSE Value(debounceTimer).value

\* Every suggestion request has been answered and no timer is pending.
SearchSettled ==
    /\ debounceTimer # Null
    /\ timers = {}
    /\ searchRequests = EmptyBag

\* C28: once every suggestion request has been answered and no timer is
\* pending, the suggestions shown are the ranked answer for the value
\* entered last, none if that value is empty, in whatever order the
\* responses arrived.  (None are shown either when the request for that
\* value failed or a selection has reset the search box.)
C28_LatestQuery ==
    SearchSettled
        => \/ LastEntered = <<>> /\ suggestions = <<>>
           \/ /\ LastEntered # <<>>
              /\ suggestions \in sort(SuggestionsFor(LastEntered), LastEntered)
           \/ suggestions = <<>> /\ (appError # "" \/ searchTerm = <<>>)

\* A selection has completed and reset the search term, and no key has been
\* struck since: the search term is empty and is not the value entered last.
ResetBySelection ==
    /\ selectedStock # Null
    /\ searchTerm = <<>>
    /\ LastEntered # <<>>

\* C29: after a selection has completed with success the suggestion list and
\* the search term are empty, and stay empty until the next keystroke, also
\* when a timer was pending or a suggestion request in flight at the time of
\* the selection.
C29_SelectionClears == ResetBySelection => suggestions = <<>>

(***************************************************************************)
(* The ticks of the x axis.                                                *)
(***************************************************************************)
\* C30: the tick callback labels index i of the label axis with the date of
\* the i-th point of the filtered history when i is below the length of the
\* filtered history and with prediction date i minus that length otherwise:
\* the split of the labels and datasets the composer builds, for every
\* stored history and zoom level.
C30_TicksAligned ==
    ticks # Null =>
        LET filtered == Value(filteredData)
            n == Len(filtered)
        IN  /\ Len(Value(ticks)) = Len(Value(chartData).labels)
            /\ \A i \in 1..Len(Value(ticks)) :
                   Value(ticks)[i] =
                       IF i <= n
                       THEN FormatMonthYear(NewDate(filtered[i].date))
                       ELSE FormatMonthYear(
                                parseISO(Value(predictionData).dates[i - n]))
====
